---- MODULE Spec2Model ----
(***************************************************************************)
(* sga assemble: the option parser (parseAssembleOptions), the driver      *)
(* (assembleMain) and the simplification pipeline (assemble) of            *)
(* assemble.cpp, over a string graph with twin edges.                      *)
(*                                                                         *)
(* The StringGraph class and the visitors are not part of the available    *)
(* sources; their effect on the graph is modelled from the design          *)
(* document (sections 3, 4.3, 4.4, 4.5).  Vertex ids are integers that     *)
(* also order the reads along the layout: an edge <<a, b>> with a < b      *)
(* lies on the 3' end of a, its twin <<b, a>> on the 5' end of b.          *)
(***************************************************************************)
EXTENDS Integers, Sequences, FiniteSets, TLC

\* ------------------------------------------------------------------ bounds
\* argv holds at most MaxArgs elements (options with their value, or
\* positional arguments).
MaxArgs == 3
\* The loaded graph has the reads 1..MaxV.
MaxV == 4
\* Round counts given to --trim and --bubble range over -1..MaxRounds.
MaxRounds == 2

\* int numSmooth = 4
SmoothRounds == 4

\* ------------------------------------------------------------- the options
\* getopt_long return codes of the option table (longopts/shortopts); "?" is
\* what getopt returns for an unknown flag or a flag whose required value is
\* missing, "POS" stands for a non-option element (getopt permutes it to the
\* end of argv and does not return it).
RoundVals == (0 - 1)..MaxRounds
ResolveVals == {0 - 1, 0, 1}

\* An element of argv: the code getopt returns for it (c), and its value read
\* through the istringstream as a number (n) or as a word (s).
Tokens ==
    [c : {"v", "s", "c", "z", "x", "e", "VALIDATE", "HELP", "VERSION", "?", "POS"},
     n : {0}, s : {""}]
    \cup [c : {"t", "b"}, n : RoundVals, s : {""}]
    \cup [c : {"r"}, n : ResolveVals, s : {""}]
    \cup [c : {"m"}, n : {MaxV}, s : {""}]
    \cup [c : {"p", "o", "d", "a"}, n : {0}, s : {"f"}]

\* namespace opt, with its static initialisers (statics without one are
\* zero-initialised).
OptDefaults ==
    [verbose |-> 0, asqgFile |-> "", prefix |-> "", outFile |-> "",
     debugFile |-> "", asqgOutfile |-> "", minOverlap |-> 0,
     bEdgeStats |-> FALSE, bCorrectReads |-> FALSE, bRemodelGraph |-> FALSE,
     bSmoothGraph |-> FALSE, resolveSmallRepeatLen |-> 0 - 1,
     numTrimRounds |-> 0, numBubbleRounds |-> 0, bValidate |-> FALSE,
     bExact |-> FALSE]

\* The body of the switch in parseAssembleOptions for the cases that only
\* assign an option.
ApplyOption(o, tok) ==
    CASE tok.c = "p" -> [o EXCEPT !.prefix = tok.s]
      [] tok.c = "o" -> [o EXCEPT !.outFile = tok.s]
      [] tok.c = "m" -> [o EXCEPT !.minOverlap = tok.n]
      [] tok.c = "d" -> [o EXCEPT !.debugFile = tok.s]
      [] tok.c = "v" -> [o EXCEPT !.verbose = @ + 1]
      [] tok.c = "b" -> [o EXCEPT !.numBubbleRounds = tok.n]
      [] tok.c = "s" -> [o EXCEPT !.bSmoothGraph = TRUE]
      [] tok.c = "t" -> [o EXCEPT !.numTrimRounds = tok.n]
      [] tok.c = "a" -> [o EXCEPT !.asqgOutfile = tok.s]
      [] tok.c = "c" -> [o EXCEPT !.bCorrectReads = TRUE]
      [] tok.c = "r" -> [o EXCEPT !.resolveSmallRepeatLen = tok.n]
      [] tok.c = "z" -> [o EXCEPT !.bRemodelGraph = TRUE]
      [] tok.c = "x" -> [o EXCEPT !.bEdgeStats = TRUE]
      [] tok.c = "e" -> [o EXCEPT !.bExact = TRUE]
      [] tok.c = "VALIDATE" -> [o EXCEPT !.bValidate = TRUE]
      [] OTHER -> o

\* ---------------------------------------------------------- the string graph
\* V: live vertices; C: vertices flagged contained; E: live directed edges
\* <<from, to>>, each held in the edge list of its "from" vertex; name: the
\* identifier of each vertex; exact: exact mode; corrected: sequences replaced
\* by the consensus.
Twin(e) == <<e[2], e[1]>>
Dist(e) == IF e[1] < e[2] THEN e[2] - e[1] ELSE e[1] - e[2]
\* Overlap length of an edge between reads of length MaxV + 1 laid out one
\* position apart.
OverlapLen(e) == (MaxV + 1) - Dist(e)
ReadName(v) == [kind |-> "read", n |-> v]
ContigName(k) == [kind |-> "contig-", n |-> k]

\* Edges on the 3' end (Sense) and on the 5' end (Anti) of v.
Sense(g, v) == {e \in g.E : e[1] = v /\ e[2] > v}
Anti(g, v) == {e \in g.E : e[1] = v /\ e[2] < v}

EmptyGraph ==
    [V |-> {}, C |-> {}, E |-> {}, name |-> <<>>, exact |-> FALSE,
     corrected |-> FALSE]

\* Add overlap edge: the twin pair is inserted together.
AddOverlaps(g, P) == [g EXCEPT !.E = @ \cup P \cup {Twin(e) : e \in P}]

\* StringGraph built from overlap records: reads 1..MaxV, an overlap between
\* reads at most two positions apart, at most one read flagged contained.
Candidates == {p \in (1..MaxV) \X (1..MaxV) : p[1] < p[2] /\ p[2] - p[1] <= 2}
BuiltGraphs ==
    {AddOverlaps([EmptyGraph EXCEPT !.V = 1..MaxV, !.C = K,
                                    !.name = [v \in 1..MaxV |-> ReadName(v)]], P) :
        P \in SUBSET Candidates,
        K \in {S \in SUBSET (1..MaxV) : Cardinality(S) <= 1}}

\* SGUtil::loadASQG(file, minOverlap, true): overlaps shorter than minOverlap
\* are not loaded.
LoadASQG(minOverlap) ==
    {g \in BuiltGraphs : \A e \in g.E : OverlapLen(e) >= minOverlap}

hasContainment(g) == g.C # {}

\* Remove edge: the edge and its twin go in the same step.
RemoveEdges(g, D) == [g EXCEPT !.E = @ \ (D \cup {Twin(e) : e \in D})]

\* A variant of RemoveVertices that leaves the twins in the edge lists of
\* the neighbours.
RemoveVertices_NoTwin(g, S) ==
    LET own == {e \in g.E : e[1] \in S}
    IN  [g EXCEPT !.V = @ \ S, !.C = @ \ S,
                  !.E = @ \ own,
                  !.name = [v \in g.V \ S |-> g.name[v]]]

\* Remove vertex: the vertex, its edges, and their twins in the neighbours.
RemoveVertices(g, S) ==
    LET own == {e \in g.E : e[1] \in S}
    IN  [g EXCEPT !.V = @ \ S, !.C = @ \ S,
                  !.E = @ \ (own \cup {Twin(e) : e \in own}),
                  !.name = [v \in g.V \ S |-> g.name[v]]]

\* The pairs merge() applies to: b is the only 3' neighbour of a and a the
\* only 5' neighbour of b.
Mergeable(g) ==
    {p \in g.V \X g.V : /\ p[1] < p[2]
                        /\ Sense(g, p[1]) = {p}
                        /\ Anti(g, p[2]) = {Twin(p)}}

\* StringGraph::simplify(): merge every maximal unbranched path.  A merge of
\* <<a, b>> removes b and re-points the edges on the far side of b to a; it
\* leaves the other pairs mergeable, so every vertex ends up in the first
\* vertex of its path.
RECURSIVE PathHead(_, _)
PathHead(R, v) ==
    IF \E p \in R : p[2] = v
    THEN PathHead(R, (CHOOSE p \in R : p[2] = v)[1])
    ELSE v
simplify(g) ==
    LET R == Mergeable(g)
        kept == g.V \ {p[2] : p \in R}
    IN  [g EXCEPT !.V = kept, !.C = @ \cap kept,
                  !.E = {<<PathHead(R, e[1]), PathHead(R, e[2])>> : e \in g.E \ (R \cup {Twin(p) : p \in R})},
                  !.name = [v \in kept |-> g.name[v]]]

\* SGContainRemoveVisitor: every vertex flagged contained is removed.
ContainRemove(g) == RemoveVertices(g, g.C)

\* SGTransitiveReductionVisitor: the direct edge a->c is removed when a two-hop
\* path a->b->c spans it.
Transitive(g) ==
    {e \in g.E : /\ e[1] < e[2]
                 /\ \E b \in g.V : /\ e[1] < b /\ b < e[2]
                                   /\ <<e[1], b>> \in g.E /\ <<b, e[2]>> \in g.E}
TransitiveReduce(g) == RemoveEdges(g, Transitive(g))

\* SGErrorCorrectVisitor: sequences are replaced, the structure is kept.
ErrorCorrect(g) == [g EXCEPT !.corrected = TRUE]

\* SGRemodelVisitor: the edges are recomputed from the corrected sequences;
\* an overlap may not hold any more, and a read that still overlaps another
\* may be found to be contained in it.
RemodelOutcomes(g) ==
    {[g EXCEPT !.E = P \cup {Twin(e) : e \in P}, !.C = K] :
        P \in SUBSET {e \in g.E : e[1] < e[2]},
        K \in {S \in SUBSET g.V : Cardinality(S) <= 1}}

\* SGTrimVisitor: a vertex with edges on one end only is a dead end.
Terminal(g) == {v \in g.V : (Sense(g, v) = {}) # (Anti(g, v) = {})}
Trim(g) == RemoveVertices(g, Terminal(g))

\* A simple bubble a -> {b1, b2} -> d.
Bubbles(g) ==
    {q \in g.V \X g.V \X g.V \X g.V :
        /\ q[1] < q[2] /\ q[2] < q[3] /\ q[3] < q[4]
        /\ \A b \in {q[2], q[3]} : /\ Sense(g, b) = {<<b, q[4]>>}
                                   /\ Anti(g, b) = {<<b, q[1]>>}}

\* SGSmoothingVisitor: a bubble is collapsed to one of its two branches.
SmoothOutcomes(g) ==
    IF Bubbles(g) = {} THEN {g}
    ELSE {RemoveVertices(g, {b}) : b \in UNION {{q[2], q[3]} : q \in Bubbles(g)}}

\* SGBubbleVisitor: a simple bubble of the compacted graph is popped.
BubbleOutcomes(g) ==
    IF Bubbles(g) = {} THEN {g}
    ELSE {RemoveVertices(g, {b}) : b \in UNION {{q[2], q[3]} : q \in Bubbles(g)}}

\* SGSmallRepeatResolveVisitor(len): on an end with several edges, an edge
\* whose overlap is more than len shorter than the longest one is removed.
Resolvable(g, len) ==
    {e \in g.E : \E f \in g.E : /\ f[1] = e[1]
                                 /\ (f[2] > f[1]) = (e[2] > e[1])
                                 /\ OverlapLen(f) - OverlapLen(e) > len}
SmallRepeatResolve(g, len) == RemoveEdges(g, Resolvable(g, len))

\* StringGraph::renameVertices(prefix): sequential contig identifiers.
renameVertices(g) ==
    [g EXCEPT !.name =
        [v \in g.V |-> ContigName(Cardinality({u \in g.V : u < v}))]]

\* SGValidateStructureVisitor / StringGraph::validate(): the structural
\* invariants of the data model.
Valid(g) ==
    /\ \A e \in g.E : /\ Twin(e) \in g.E
                      /\ e[1] \in g.V /\ e[2] \in g.V
                      /\ e[1] # e[2]
    /\ g.C \subseteq g.V
    /\ \A u, v \in g.V : g.name[u] = g.name[v] => u = v

\* ------------------------------------------------------------------- state
VARIABLES
    pc,          \* position in assembleMain / parseAssembleOptions / assemble
    opt,         \* namespace opt
    die,         \* parseAssembleOptions: bool die
    nargs,       \* elements of argv scanned by getopt_long
    npos,        \* non-option elements found: argc - optind after the scan
    seen,        \* codes of the elements of argv scanned so far
    out,         \* messages printed by the parser
    exitStatus,  \* "none" while running, else the status of the process
    G,           \* *pGraph
    numTrims,    \* assemble: int numTrims
    numSmooth,   \* assemble: int numSmooth
    numPops,     \* assemble: int numPops
    changed,     \* value returned by the last pGraph->visit()
    log,         \* the calls made on the graph so far, in order, each with
                 \* the number of changes its post-visit reports
    files,       \* files written so far, each with the vertex ids it holds
    faultAt      \* position of the fatal fault, "none" if there was none

vars == <<pc, opt, die, nargs, npos, seen, out, exitStatus, G, numTrims,
          numSmooth, numPops, changed, log, files, faultAt>>
parseVars == <<opt, die, nargs, npos, seen, out, exitStatus>>
loopVars == <<numTrims, numSmooth, numPops>>

Init ==
    /\ pc = "main"
    /\ opt = OptDefaults
    /\ die = FALSE
    /\ nargs = 0
    /\ npos = 0
    /\ seen = {}
    /\ out = {}
    /\ exitStatus = "none"
    /\ G = EmptyGraph
    /\ numTrims = 0
    /\ numSmooth = 0
    /\ numPops = 0
    /\ changed = FALSE
    /\ log = <<>>
    /\ files = {}
    /\ faultAt = "none"

\* The log holds every call of a run; LogCap is above the length of any run.
LogCap == 48 + (2 * MaxRounds) + MaxV + MaxArgs
Ev(e, k) ==
    log' = IF Len(log) < LogCap THEN Append(log, [ev |-> e, n |-> k]) ELSE log
HasEvent(e) == \E i \in 1..Len(log) : log[i].ev = e
Names(g) == {g.name[v] : v \in g.V}
WriteFile(f) == files' = files \cup {[name |-> f, ids |-> Names(G)]}
asmVars == <<G, numTrims, numSmooth, numPops, changed, log, files, faultAt>>

\* ------------------------------------------------- parseAssembleOptions
\* assembleMain calls parseAssembleOptions, which sets the defaults.
ParseDefaults ==
    /\ pc = "main"
    /\ opt' = [opt EXCEPT !.outFile = "contigs.fa", !.minOverlap = 0]
    /\ die' = FALSE
    /\ pc' = "getopt"
    /\ UNCHANGED <<nargs, npos, seen, out, exitStatus>>
    /\ UNCHANGED asmVars

\* getopt_long returns the code of a known option: the switch assigns it.
GetoptOption ==
    /\ pc = "getopt"
    /\ nargs < MaxArgs
    /\ \E tok \in Tokens :
          /\ tok.c \notin {"HELP", "VERSION", "?", "POS"}
          /\ opt' = ApplyOption(opt, tok)
          /\ seen' = seen \cup {tok.c}
    /\ nargs' = nargs + 1
    /\ UNCHANGED <<pc, die, npos, out, exitStatus>>
    /\ UNCHANGED asmVars

\* case '?': an unknown flag, or a flag without its required value.
GetoptUnknown ==
    /\ pc = "getopt"
    /\ nargs < MaxArgs
    /\ die' = TRUE
    /\ seen' = seen \cup {"?"}
    /\ nargs' = nargs + 1
    /\ UNCHANGED <<pc, opt, npos, out, exitStatus>>
    /\ UNCHANGED asmVars

\* case OPT_HELP: the usage message, exit(EXIT_SUCCESS).
GetoptHelp ==
    /\ pc = "getopt"
    /\ nargs < MaxArgs
    /\ seen' = seen \cup {"HELP"}
    /\ nargs' = nargs + 1
    /\ out' = out \cup {"usage"}
    /\ exitStatus' = "EXIT_SUCCESS"
    /\ pc' = "exited"
    /\ UNCHANGED <<opt, die, npos>>
    /\ UNCHANGED asmVars

\* case OPT_VERSION: the version message, exit(EXIT_SUCCESS).
GetoptVersion ==
    /\ pc = "getopt"
    /\ nargs < MaxArgs
    /\ seen' = seen \cup {"VERSION"}
    /\ nargs' = nargs + 1
    /\ out' = out \cup {"version"}
    /\ exitStatus' = "EXIT_SUCCESS"
    /\ pc' = "exited"
    /\ UNCHANGED <<opt, die, npos>>
    /\ UNCHANGED asmVars

\* A non-option element: getopt_long skips it and leaves it for argv[optind].
GetoptPositional ==
    /\ pc = "getopt"
    /\ nargs < MaxArgs
    /\ seen' = seen \cup {"POS"}
    /\ nargs' = nargs + 1
    /\ npos' = npos + 1
    /\ UNCHANGED <<pc, opt, die, out, exitStatus>>
    /\ UNCHANGED asmVars

\* getopt_long returns -1: the loop ends.
GetoptEnd ==
    /\ pc = "getopt"
    /\ pc' = "argcheck"
    /\ UNCHANGED parseVars
    /\ UNCHANGED asmVars

\* A variant of ArgCheck without the test for more than one positional
\* argument.
ArgCheck_NoTooMany ==
    /\ pc = "argcheck"
    /\ LET msg == IF npos < 1 THEN {"missing arguments"} ELSE {}
           d == die \/ npos < 1
       IN  /\ die' = d
           /\ IF d
              THEN /\ out' = out \cup msg \cup {"hint"}
                   /\ exitStatus' = "EXIT_FAILURE"
                   /\ pc' = "exited"
                   /\ opt' = opt
              ELSE /\ out' = out \cup msg
                   /\ exitStatus' = exitStatus
                   /\ pc' = "load"
                   /\ opt' = [opt EXCEPT !.asqgFile = "ASQGFILE"]
    /\ UNCHANGED <<nargs, npos, seen>>
    /\ UNCHANGED asmVars

\* The checks on argc - optind, the exit on die, and the input file name.
ArgCheck ==
    /\ pc = "argcheck"
    /\ LET msg == IF npos < 1 THEN {"missing arguments"}
                  ELSE IF npos > 1 THEN {"too many arguments"} ELSE {}
           d == die \/ npos < 1 \/ npos > 1
       IN  /\ die' = d
           /\ IF d
              THEN /\ out' = out \cup msg \cup {"hint"}
                   /\ exitStatus' = "EXIT_FAILURE"
                   /\ pc' = "exited"
                   /\ opt' = opt
              ELSE /\ out' = out \cup msg
                   /\ exitStatus' = exitStatus
                   /\ pc' = "load"
                   /\ opt' = [opt EXCEPT !.asqgFile = "ASQGFILE"]
    /\ UNCHANGED <<nargs, npos, seen>>
    /\ UNCHANGED asmVars

\* ----------------------------------------------------------------- assemble
\* l.109-112: the graph is loaded (and put in exact mode).
Load ==
    /\ pc = "load"
    /\ \E g \in LoadASQG(opt.minOverlap) : G' = [g EXCEPT !.exact = opt.bExact]
    /\ Ev("load", 0)
    /\ pc' = "debug"
    /\ UNCHANGED <<loopVars, changed, files, faultAt>>
    /\ UNCHANGED parseVars

\* l.128-148: with a debug file, statistics and the graph comparison.
DebugCompare ==
    /\ pc = "debug"
    /\ IF opt.debugFile # ""
       THEN log' = IF Len(log) + 3 <= LogCap
                   THEN log \o << [ev |-> "stats", n |-> 0],
                                  [ev |-> "debug", n |-> 0],
                                  [ev |-> "stats", n |-> 0] >>
                   ELSE log
       ELSE log' = log
    /\ changed' = IF opt.debugFile # "" THEN FALSE ELSE changed
    /\ pc' = "edgestats"
    /\ UNCHANGED <<G, loopVars, files, faultAt>>
    /\ UNCHANGED parseVars

\* l.150-154
EdgeStats ==
    /\ pc = "edgestats"
    /\ IF opt.bEdgeStats THEN Ev("edgestats", 0) ELSE log' = log
    /\ changed' = IF opt.bEdgeStats THEN FALSE ELSE changed
    /\ pc' = "initstats"
    /\ UNCHANGED <<G, loopVars, files, faultAt>>
    /\ UNCHANGED parseVars

\* A visit of statsVisit at position at, continuing at next.
StatsAt(at, next) ==
    /\ pc = at
    /\ Ev("stats", 0)
    /\ changed' = FALSE
    /\ pc' = next
    /\ UNCHANGED <<G, loopVars, files, faultAt>>
    /\ UNCHANGED parseVars

\* l.158
InitStats == StatsAt("initstats", "contain")

\* l.162-165: one pass of the containment loop.
ContainVisit ==
    /\ pc = "contain"
    /\ hasContainment(G)
    /\ G' = ContainRemove(G)
    /\ changed' = (G' # G)
    /\ Ev("contain", Cardinality(G.C))
    /\ UNCHANGED <<pc, loopVars, files, faultAt>>
    /\ UNCHANGED parseVars

\* A variant of ContainExit that leaves the loop without the test of
\* hasContainment().
ContainExit_NoTest ==
    /\ pc = "contain"
    /\ pc' = "postcontainstats"
    /\ UNCHANGED asmVars
    /\ UNCHANGED parseVars

\* l.162: the loop ends when hasContainment() is false.
ContainExit ==
    /\ pc = "contain"
    /\ ~hasContainment(G)
    /\ pc' = "postcontainstats"
    /\ UNCHANGED asmVars
    /\ UNCHANGED parseVars

\* l.169
PostContainStats == StatsAt("postcontainstats", "tr")

\* l.173
TransitiveReduction ==
    /\ pc = "tr"
    /\ G' = TransitiveReduce(G)
    /\ changed' = (G' # G)
    /\ Ev("tr", Cardinality(Transitive(G)))
    /\ pc' = "validate"
    /\ UNCHANGED <<loopVars, files, faultAt>>
    /\ UNCHANGED parseVars

\* A variant of Validate that makes the validation visit whatever the flag.
Validate_Always ==
    /\ pc = "validate"
    /\ Ev("validate", 0)
    /\ changed' = FALSE
    /\ IF Valid(G)
       THEN pc' = "prermstats" /\ faultAt' = faultAt
       ELSE pc' = "aborted" /\ faultAt' = pc
    /\ UNCHANGED <<G, loopVars, files>>
    /\ UNCHANGED parseVars

\* l.178-182: the structural validation, a fatal fault if it fails.
Validate ==
    /\ pc = "validate"
    /\ IF opt.bValidate
       THEN /\ Ev("validate", 0)
            /\ changed' = FALSE
            /\ IF Valid(G)
               THEN pc' = "prermstats" /\ faultAt' = faultAt
               ELSE pc' = "aborted" /\ faultAt' = pc
       ELSE /\ pc' = "prermstats"
            /\ UNCHANGED <<log, changed, faultAt>>
    /\ UNCHANGED <<G, loopVars, files>>
    /\ UNCHANGED parseVars

\* l.188
PreRemodelStats == StatsAt("prermstats", "correct")

\* l.190-193: error correction.
CorrectReads ==
    /\ pc = "correct"
    /\ IF opt.bCorrectReads
       THEN /\ G' = ErrorCorrect(G)
            /\ changed' = (G' # G)
            /\ Ev("ec", 0)
            /\ pc' = "ecfasta"
       ELSE /\ pc' = "remodel"
            /\ UNCHANGED <<G, changed, log>>
    /\ UNCHANGED <<loopVars, files, faultAt>>
    /\ UNCHANGED parseVars

\* l.195-197: the corrected reads are written.
WriteCorrected ==
    /\ pc = "ecfasta"
    /\ WriteFile("correctedReads.fa")
    /\ changed' = FALSE
    /\ Ev("fasta", 0)
    /\ pc' = "ecwrite"
    /\ UNCHANGED <<G, loopVars, faultAt>>
    /\ UNCHANGED parseVars

\* l.198
WriteAfterEC ==
    /\ pc = "ecwrite"
    /\ WriteFile("afterEC.asqg.gz")
    /\ Ev("writeASQG", 0)
    /\ pc' = "remodel"
    /\ UNCHANGED <<G, loopVars, changed, faultAt>>
    /\ UNCHANGED parseVars

\* l.201-205: the remodel visit.
Remodel ==
    /\ pc = "remodel"
    /\ IF opt.bRemodelGraph
       THEN /\ G' \in RemodelOutcomes(G)
            /\ changed' = (G' # G)
            /\ Ev("remodel", 0)
            /\ pc' = "rmwrite"
       ELSE /\ pc' = "trim"
            /\ UNCHANGED <<G, changed, log>>
    /\ UNCHANGED <<loopVars, files, faultAt>>
    /\ UNCHANGED parseVars

\* l.206
WriteAfterRM ==
    /\ pc = "rmwrite"
    /\ WriteFile("afterRM.asqg.gz")
    /\ Ev("writeASQG", 0)
    /\ pc' = "rmcontain"
    /\ UNCHANGED <<G, loopVars, changed, faultAt>>
    /\ UNCHANGED parseVars

\* l.208-212: one pass of the containment loop after remodel.
RemodelContainVisit ==
    /\ pc = "rmcontain"
    /\ hasContainment(G)
    /\ G' = ContainRemove(G)
    /\ changed' = (G' # G)
    /\ Ev("contain", Cardinality(G.C))
    /\ UNCHANGED <<pc, loopVars, files, faultAt>>
    /\ UNCHANGED parseVars

\* A variant of RemodelContainExit without the loop: containment removal is
\* not repeated after remodel.
RemodelContainExit_NoLoop ==
    /\ pc = "rmcontain"
    /\ pc' = "rmtr"
    /\ UNCHANGED asmVars
    /\ UNCHANGED parseVars

\* l.208: the loop ends when hasContainment() is false.
RemodelContainExit ==
    /\ pc = "rmcontain"
    /\ ~hasContainment(G)
    /\ pc' = "rmtr"
    /\ UNCHANGED asmVars
    /\ UNCHANGED parseVars

\* A variant of RemodelTransitiveReduction that goes on to trimming without
\* the transitive reduction.
RemodelTransitiveReduction_Skipped ==
    /\ pc = "rmtr"
    /\ pc' = "rmstats"
    /\ UNCHANGED asmVars
    /\ UNCHANGED parseVars

\* l.213
RemodelTransitiveReduction ==
    /\ pc = "rmtr"
    /\ G' = TransitiveReduce(G)
    /\ changed' = (G' # G)
    /\ Ev("tr", Cardinality(Transitive(G)))
    /\ pc' = "rmstats"
    /\ UNCHANGED <<loopVars, files, faultAt>>
    /\ UNCHANGED parseVars

\* l.215
RemodelStats == StatsAt("rmstats", "trim")

\* A variant of TrimInit that takes the post-modification snapshot before
\* the modification stages.
TrimInit_SnapshotFirst ==
    /\ pc = "trim"
    /\ IF opt.numTrimRounds > 0
       THEN numTrims' = opt.numTrimRounds /\ pc' = "trimloop"
       ELSE numTrims' = numTrims /\ pc' = "smooth"
    /\ WriteFile("postmod.asqg.gz")
    /\ UNCHANGED <<G, numSmooth, numPops, changed, log, faultAt>>
    /\ UNCHANGED parseVars

\* l.219-223: with trimming enabled, the round counter is set.
TrimInit ==
    /\ pc = "trim"
    /\ IF opt.numTrimRounds > 0
       THEN numTrims' = opt.numTrimRounds /\ pc' = "trimloop"
       ELSE numTrims' = numTrims /\ pc' = "smooth"
    /\ UNCHANGED <<G, numSmooth, numPops, changed, log, files, faultAt>>
    /\ UNCHANGED parseVars

\* A variant of TrimVisit that stops the rounds once a visit reports no
\* change (a fixed-point loop in place of the counted one).
TrimVisit_UntilNoChange ==
    /\ pc = "trimloop"
    /\ numTrims > 0
    /\ G' = Trim(G)
    /\ changed' = (G' # G)
    /\ numTrims' = IF changed' THEN numTrims - 1 ELSE 0
    /\ Ev("trim", Cardinality(Terminal(G)))
    /\ UNCHANGED <<pc, numSmooth, numPops, files, faultAt>>
    /\ UNCHANGED parseVars

\* l.224-225: while(numTrims-- > 0) with the test true: one trim visit.
TrimVisit ==
    /\ pc = "trimloop"
    /\ numTrims > 0
    /\ numTrims' = numTrims - 1
    /\ G' = Trim(G)
    /\ changed' = (G' # G)
    /\ Ev("trim", Cardinality(Terminal(G)))
    /\ UNCHANGED <<pc, numSmooth, numPops, files, faultAt>>
    /\ UNCHANGED parseVars

\* A variant of TrimExit that treats a last round that still changed the
\* graph as an error.
TrimExit_AbortOnChange ==
    /\ pc = "trimloop"
    /\ ~(numTrims > 0)
    /\ numTrims' = numTrims - 1
    /\ IF changed
       THEN pc' = "aborted" /\ faultAt' = pc
       ELSE pc' = "smooth" /\ faultAt' = faultAt
    /\ UNCHANGED <<G, numSmooth, numPops, changed, log, files>>
    /\ UNCHANGED parseVars

\* l.224: the test false: the loop ends.
TrimExit ==
    /\ pc = "trimloop"
    /\ ~(numTrims > 0)
    /\ numTrims' = numTrims - 1
    /\ pc' = "smooth"
    /\ UNCHANGED <<G, numSmooth, numPops, changed, log, files, faultAt>>
    /\ UNCHANGED parseVars

\* l.228-232: with smoothing enabled, the round counter is set.
SmoothInit ==
    /\ pc = "smooth"
    /\ IF opt.bSmoothGraph
       THEN numSmooth' = SmoothRounds /\ pc' = "smoothloop"
       ELSE numSmooth' = numSmooth /\ pc' = "resolve"
    /\ UNCHANGED <<G, numTrims, numPops, changed, log, files, faultAt>>
    /\ UNCHANGED parseVars

\* l.233-234: one smoothing visit.
SmoothVisit ==
    /\ pc = "smoothloop"
    /\ numSmooth > 0
    /\ numSmooth' = numSmooth - 1
    /\ G' \in SmoothOutcomes(G)
    /\ changed' = (G' # G)
    /\ Ev("smooth", Cardinality(G.V) - Cardinality(G'.V))
    /\ UNCHANGED <<pc, numTrims, numPops, files, faultAt>>
    /\ UNCHANGED parseVars

\* A variant of SmoothExit that runs the trim visitor once more after the
\* smoothing rounds (the call left commented out at l.235).
SmoothExit_TrimAfter ==
    /\ pc = "smoothloop"
    /\ ~(numSmooth > 0)
    /\ numSmooth' = numSmooth - 1
    /\ G' = Trim(G)
    /\ changed' = (G' # G)
    /\ Ev("trim", Cardinality(Terminal(G)))
    /\ pc' = "resolve"
    /\ UNCHANGED <<numTrims, numPops, files, faultAt>>
    /\ UNCHANGED parseVars

\* l.233: the test false: the loop ends.
SmoothExit ==
    /\ pc = "smoothloop"
    /\ ~(numSmooth > 0)
    /\ numSmooth' = numSmooth - 1
    /\ pc' = "resolve"
    /\ UNCHANGED <<G, numTrims, numPops, changed, log, files, faultAt>>
    /\ UNCHANGED parseVars

\* A variant of ResolveInit that takes a threshold of 0 for "disabled".
ResolveInit_Positive ==
    /\ pc = "resolve"
    /\ pc' = IF opt.resolveSmallRepeatLen > 0 THEN "resolveloop" ELSE "postmod"
    /\ UNCHANGED asmVars
    /\ UNCHANGED parseVars

\* l.239-242
ResolveInit ==
    /\ pc = "resolve"
    /\ pc' = IF opt.resolveSmallRepeatLen >= 0 THEN "resolveloop" ELSE "postmod"
    /\ UNCHANGED asmVars
    /\ UNCHANGED parseVars

\* A variant of ResolveVisit whose loop goes on while edges remain, whatever
\* the visit returns.
ResolveVisit_WhileEdges ==
    /\ pc = "resolveloop"
    /\ G' = SmallRepeatResolve(G, opt.resolveSmallRepeatLen)
    /\ changed' = (G' # G)
    /\ Ev("resolve", Cardinality(Resolvable(G, opt.resolveSmallRepeatLen)))
    /\ pc' = IF G'.E # {} THEN "resolveloop" ELSE "resolvestats"
    /\ UNCHANGED <<loopVars, files, faultAt>>
    /\ UNCHANGED parseVars

\* A variant of ResolveVisit that makes one visit and leaves the loop,
\* whatever the visit returns.
ResolveVisit_SinglePass ==
    /\ pc = "resolveloop"
    /\ G' = SmallRepeatResolve(G, opt.resolveSmallRepeatLen)
    /\ changed' = (G' # G)
    /\ Ev("resolve", Cardinality(Resolvable(G, opt.resolveSmallRepeatLen)))
    /\ pc' = "resolvestats"
    /\ UNCHANGED <<loopVars, files, faultAt>>
    /\ UNCHANGED parseVars

\* l.244: while(pGraph->visit(smallRepeatVisit)) {}: one visit and the test.
ResolveVisit ==
    /\ pc = "resolveloop"
    /\ G' = SmallRepeatResolve(G, opt.resolveSmallRepeatLen)
    /\ changed' = (G' # G)
    /\ Ev("resolve", Cardinality(Resolvable(G, opt.resolveSmallRepeatLen)))
    /\ pc' = IF changed' THEN "resolveloop" ELSE "resolvestats"
    /\ UNCHANGED <<loopVars, files, faultAt>>
    /\ UNCHANGED parseVars

\* l.247
ResolveStats == StatsAt("resolvestats", "postmod")

\* l.250
WritePostMod ==
    /\ pc = "postmod"
    /\ WriteFile("postmod.asqg.gz")
    /\ Ev("writeASQG", 0)
    /\ pc' = "presimplifystats"
    /\ UNCHANGED <<G, loopVars, changed, faultAt>>
    /\ UNCHANGED parseVars

\* l.262
PreSimplifyStats == StatsAt("presimplifystats", "simplify")

\* l.269
Simplify ==
    /\ pc = "simplify"
    /\ G' = simplify(G)
    /\ Ev("simplify", Cardinality(G.V) - Cardinality(G'.V))
    /\ pc' = "bubble"
    /\ UNCHANGED <<loopVars, changed, files, faultAt>>
    /\ UNCHANGED parseVars

\* l.271-275: with bubble removal enabled, the round counter is set.
BubbleInit ==
    /\ pc = "bubble"
    /\ IF opt.numBubbleRounds > 0
       THEN numPops' = opt.numBubbleRounds /\ pc' = "bubbleloop"
       ELSE numPops' = numPops /\ pc' = "finalstats"
    /\ UNCHANGED <<G, numTrims, numSmooth, changed, log, files, faultAt>>
    /\ UNCHANGED parseVars

\* l.276-277: one bubble visit.
BubbleVisit ==
    /\ pc = "bubbleloop"
    /\ numPops > 0
    /\ numPops' = numPops - 1
    /\ G' \in BubbleOutcomes(G)
    /\ changed' = (G' # G)
    /\ Ev("bubble", Cardinality(G.V) - Cardinality(G'.V))
    /\ UNCHANGED <<pc, numTrims, numSmooth, files, faultAt>>
    /\ UNCHANGED parseVars

\* l.276: the test false: the loop ends.
BubbleExit ==
    /\ pc = "bubbleloop"
    /\ ~(numPops > 0)
    /\ numPops' = numPops - 1
    /\ pc' = "bubblesimplify"
    /\ UNCHANGED <<G, numTrims, numSmooth, changed, log, files, faultAt>>
    /\ UNCHANGED parseVars

\* A variant of BubbleSimplify that goes on without the second compaction.
BubbleSimplify_Skipped ==
    /\ pc = "bubblesimplify"
    /\ pc' = "finalstats"
    /\ UNCHANGED asmVars
    /\ UNCHANGED parseVars

\* l.278
BubbleSimplify ==
    /\ pc = "bubblesimplify"
    /\ G' = simplify(G)
    /\ Ev("simplify", Cardinality(G.V) - Cardinality(G'.V))
    /\ pc' = "finalstats"
    /\ UNCHANGED <<loopVars, changed, files, faultAt>>
    /\ UNCHANGED parseVars

\* l.282
FinalStats == StatsAt("finalstats", "buildvalidate")

\* l.284-287, in a build with VALIDATE defined: pGraph->validate().
BuildValidate ==
    /\ pc = "buildvalidate"
    /\ Ev("validate()", 0)
    /\ IF Valid(G)
       THEN pc' = "rename" /\ faultAt' = faultAt
       ELSE pc' = "aborted" /\ faultAt' = pc
    /\ UNCHANGED <<G, loopVars, changed, files>>
    /\ UNCHANGED parseVars

\* l.284-287, in a build without VALIDATE: nothing.
BuildNoValidate ==
    /\ pc = "buildvalidate"
    /\ pc' = "rename"
    /\ UNCHANGED asmVars
    /\ UNCHANGED parseVars

\* l.290
RenameVertices ==
    /\ pc = "rename"
    /\ G' = renameVertices(G)
    /\ Ev("rename", 0)
    /\ pc' = "writedot"
    /\ UNCHANGED <<loopVars, changed, files, faultAt>>
    /\ UNCHANGED parseVars

\* l.293
WriteDot ==
    /\ pc = "writedot"
    /\ WriteFile("final.dot")
    /\ Ev("writeDot", 0)
    /\ pc' = "writecontigs"
    /\ UNCHANGED <<G, loopVars, changed, faultAt>>
    /\ UNCHANGED parseVars

\* l.295-296: the contigs are written to opt::outFile.
WriteContigs ==
    /\ pc = "writecontigs"
    /\ WriteFile(opt.outFile)
    /\ changed' = FALSE
    /\ Ev("contigs", 0)
    /\ pc' = "writefinal"
    /\ UNCHANGED <<G, loopVars, faultAt>>
    /\ UNCHANGED parseVars

\* A variant of WriteFinalGraph that writes the final graph in every run
\* (the call left commented out at l.294).
WriteFinalGraph_Always ==
    /\ pc = "writefinal"
    /\ WriteFile("final.asqg")
    /\ Ev("finalASQG", 0)
    /\ pc' = "delete"
    /\ UNCHANGED <<G, loopVars, changed, faultAt>>
    /\ UNCHANGED parseVars

\* l.297-300: the final graph, when a file was named for it.
WriteFinalGraph ==
    /\ pc = "writefinal"
    /\ IF opt.asqgOutfile # ""
       THEN WriteFile(opt.asqgOutfile) /\ Ev("finalASQG", 0)
       ELSE UNCHANGED <<files, log>>
    /\ pc' = "delete"
    /\ UNCHANGED <<G, loopVars, changed, faultAt>>
    /\ UNCHANGED parseVars

\* l.301
DeleteGraph ==
    /\ pc = "delete"
    /\ G' = EmptyGraph
    /\ Ev("delete", 0)
    /\ pc' = "return"
    /\ UNCHANGED <<loopVars, changed, files, faultAt>>
    /\ UNCHANGED parseVars

\* assembleMain l.101-103: return 0.
MainReturn ==
    /\ pc = "return"
    /\ exitStatus' = "EXIT_SUCCESS"
    /\ pc' = "done"
    /\ UNCHANGED <<opt, die, nargs, npos, seen, out>>
    /\ UNCHANGED asmVars

\* The positions where the next step is a call that loads or changes the
\* graph.
FaultSites ==
    {"load", "contain", "tr", "correct", "remodel", "rmcontain", "rmtr",
     "trimloop", "smoothloop", "resolveloop", "simplify", "bubbleloop",
     "bubblesimplify", "rename"}
CallPending ==
    /\ pc \in FaultSites
    /\ pc \in {"contain", "rmcontain"} => hasContainment(G)
    /\ pc = "correct" => opt.bCorrectReads
    /\ pc = "remodel" => opt.bRemodelGraph
    /\ pc = "trimloop" => numTrims > 0
    /\ pc = "smoothloop" => numSmooth > 0
    /\ pc = "bubbleloop" => numPops > 0

\* A fatal fault (malformed input at the load, a structural inconsistency or
\* a failed assertion in a graph operation) ends the process on the spot.
Fault ==
    /\ CallPending
    /\ pc' = "aborted"
    /\ faultAt' = pc
    /\ exitStatus' = "ABORT"
    /\ UNCHANGED <<opt, die, nargs, npos, seen, out>>
    /\ UNCHANGED <<G, loopVars, changed, log, files>>

\* One more element of argv is scanned by getopt_long.
Scan ==
    \/ GetoptOption \/ GetoptUnknown \/ GetoptHelp
    \/ GetoptVersion \/ GetoptPositional

\* The steps of the program after the scan of an element.
Run ==
    \/ ParseDefaults \/ GetoptEnd \/ ArgCheck
    \/ Load \/ DebugCompare \/ EdgeStats \/ InitStats
    \/ ContainVisit \/ ContainExit \/ PostContainStats
    \/ TransitiveReduction \/ Validate \/ PreRemodelStats
    \/ CorrectReads \/ WriteCorrected \/ WriteAfterEC
    \/ Remodel \/ WriteAfterRM \/ RemodelContainVisit \/ RemodelContainExit
    \/ RemodelTransitiveReduction \/ RemodelStats
    \/ TrimInit \/ TrimVisit \/ TrimExit
    \/ SmoothInit \/ SmoothVisit \/ SmoothExit
    \/ ResolveInit \/ ResolveVisit \/ ResolveStats
    \/ WritePostMod \/ PreSimplifyStats \/ Simplify
    \/ BubbleInit \/ BubbleVisit \/ BubbleExit \/ BubbleSimplify
    \/ FinalStats \/ BuildValidate \/ BuildNoValidate
    \/ RenameVertices \/ WriteDot \/ WriteContigs \/ WriteFinalGraph
    \/ DeleteGraph \/ MainReturn

Next == Scan \/ Run \/ Fault

Spec == Init /\ [][Next]_vars

\* The runs with one element of argv less: the same program on the shorter
\* command lines.  The process is single-threaded and runs on, so a step of
\* the program that is enabled is taken; a fault may happen, none has to.
LiveArgs == MaxArgs - 1
ProgramStep == (nargs < LiveArgs /\ Scan) \/ Run
LiveNext == ProgramStep \/ Fault
FairSpec == Init /\ [][LiveNext]_vars /\ WF_vars(ProgramStep)

\* ------------------------------------------------------------------ claims
\* The stage calls of the log: the visits and graph operations of the stages
\* of the pipeline, without statistics, validation and checkpoint writes.
StageNames ==
    {"contain", "tr", "ec", "remodel", "trim", "smooth", "resolve", "simplify",
     "bubble", "rename", "writeDot", "contigs", "finalASQG"}
IsStageEvent(x) == x.ev \in StageNames
StageEvents == SelectSeq(log, IsStageEvent)

\* Phases of the mandated order: 1 containment removal, 2 transitive
\* reduction, 3 error correction, 4 remodel visit, 5 and 6 the repeat of
\* containment removal and transitive reduction inside remodel, 7 trimming,
\* 8 smoothing, 9 small-repeat resolution, 10 compaction, 11 bubble removal,
\* 12 recompaction, 13 renaming, 14..16 output.  PhaseStep(p, e) is the phase
\* the call e belongs to when it follows phase p, and 0 - 1 when e may not
\* follow p in the mandated order.
PhaseStep(p, e) ==
    CASE p < 0 -> p
      [] e = "contain" -> IF p <= 1 THEN 1 ELSE IF p \in {4, 5} THEN 5 ELSE 0 - 1
      [] e = "tr" -> IF p <= 1 THEN 2 ELSE IF p \in {4, 5} THEN 6 ELSE 0 - 1
      [] e = "ec" -> IF p = 2 THEN 3 ELSE 0 - 1
      [] e = "remodel" -> IF p \in {2, 3} THEN 4 ELSE 0 - 1
      [] e = "trim" -> IF p \in {2, 3, 6, 7} THEN 7 ELSE 0 - 1
      [] e = "smooth" -> IF p \in {2, 3, 6, 7, 8} THEN 8 ELSE 0 - 1
      [] e = "resolve" -> IF p \in {2, 3, 6, 7, 8, 9} THEN 9 ELSE 0 - 1
      [] e = "simplify" -> IF p \in {2, 3, 6, 7, 8, 9} THEN 10
                           ELSE IF p = 11 THEN 12 ELSE 0 - 1
      [] e = "bubble" -> IF p \in {10, 11} THEN 11 ELSE 0 - 1
      [] e = "rename" -> IF p \in {10, 12} THEN 13 ELSE 0 - 1
      [] e = "writeDot" -> IF p = 13 THEN 14 ELSE 0 - 1
      [] e = "contigs" -> IF p = 14 THEN 15 ELSE 0 - 1
      [] e = "finalASQG" -> IF p = 15 THEN 16 ELSE 0 - 1
      [] OTHER -> 0 - 1

RECURSIVE PhaseAfter(_, _)
PhaseAfter(S, i) == IF i = 0 THEN 0 ELSE PhaseStep(PhaseAfter(S, i - 1), S[i].ev)

\* C1: in every run the stage calls made so far follow the mandated order:
\* containment removal, transitive reduction, error correction, remodel with
\* its repeat of containment removal and transitive reduction, trimming,
\* smoothing, small-repeat resolution, compaction, bubble removal with
\* recompaction, renaming, output; no call of an earlier stage follows a call
\* of a later one, and the log is never cut short.
C1_StageOrder ==
    /\ PhaseAfter(StageEvents, Len(StageEvents)) >= 0
    /\ Len(log) < LogCap

\* A finished run with remodel, trimming and the final output.
C1_Witness ==
    /\ pc = "done"
    /\ HasEvent("remodel")
    /\ HasEvent("trim")
    /\ HasEvent("contigs")

\* C2: whenever the transitive-reduction visitor is about to run (l.173 and
\* l.213), hasContainment() is false.
C2_NoContainmentAtTR ==
    pc \in {"tr", "rmtr"} => ~hasContainment(G)

\* The second transitive reduction is about to run after remodel flagged a
\* read as contained and the containment loop removed it.
C2_Witness ==
    /\ pc = "rmtr"
    /\ log[Len(log)].ev = "contain"
    /\ log[Len(log)].n > 0
    /\ G.E # {}

\* C3: the step that leaves a containment-removal loop (l.162 and l.208)
\* leaves a graph in which no live vertex is flagged contained.
C3_ContainmentFreeAfterLoop ==
    [][(pc \in {"contain", "rmcontain"} /\ pc' \in {"postcontainstats", "rmtr"})
          => (\A v \in G'.V : v \notin G'.C)]_vars

\* The initial loop has been left after a pass that removed a contained read.
C3_Witness ==
    /\ pc = "postcontainstats"
    /\ log[Len(log)].ev = "contain"
    /\ log[Len(log)].n > 0
    /\ G.V # {}

\* Positions of the parser, and the position of a run that ended by a fault.
ParsePcs == {"main", "getopt", "argcheck", "exited"}
Pos == IF pc = "aborted" THEN faultAt ELSE pc

\* C4 as stated: an invocation with an unknown flag, or with a number of
\* positional arguments other than one, exits nonzero with the usage hint,
\* whatever else it holds.
C4_Original ==
    (pc = "exited" /\ ("?" \in seen \/ npos # 1))
        => (exitStatus = "EXIT_FAILURE" /\ "hint" \in out)

\* C4, amended: --help or --version, once scanned, ends the process with
\* status 0 after its message; otherwise an unknown flag, no positional
\* argument or more than one end it with EXIT_FAILURE after the usage hint;
\* in both cases nothing was loaded, run or written.  Only an invocation
\* with one positional argument and known flags gets to assemble(), and
\* assembleMain returns 0 when assemble() returns.
C4_ExitStatus ==
    /\ pc = "exited" =>
          /\ G = EmptyGraph /\ log = <<>> /\ files = {}
          /\ IF seen \cap {"HELP", "VERSION"} # {}
             THEN /\ exitStatus = "EXIT_SUCCESS"
                  /\ out \cap {"usage", "version"} # {}
                  /\ "hint" \notin out
             ELSE /\ exitStatus = "EXIT_FAILURE"
                  /\ "hint" \in out
                  /\ "?" \in seen \/ npos # 1
    /\ pc \notin ParsePcs =>
          /\ seen \cap {"?", "HELP", "VERSION"} = {}
          /\ npos = 1
          /\ ~die
    /\ pc \notin (ParsePcs \cup {"done", "aborted"}) => exitStatus = "none"
    /\ pc = "done" => exitStatus = "EXIT_SUCCESS"

\* An unknown flag next to the input file: the process exited with
\* EXIT_FAILURE.
C4_Witness ==
    /\ pc = "exited"
    /\ "?" \in seen
    /\ npos = 1
    /\ exitStatus = "EXIT_FAILURE"

\* Number of calls named e in the log.
CountEv(e) == Cardinality({i \in 1..Len(log) : log[i].ev = e})
Rounds(k) == IF k > 0 THEN k ELSE 0

\* Positions after the trimming, smoothing and bubble rounds.
AfterBubble ==
    {"bubblesimplify", "finalstats", "buildvalidate", "rename", "writedot",
     "writecontigs", "writefinal", "delete", "return", "done"}
AfterSmooth ==
    {"resolve", "resolveloop", "resolvestats", "postmod", "presimplifystats",
     "simplify", "bubble", "bubbleloop"} \cup AfterBubble
AfterTrim == {"smooth", "smoothloop"} \cup AfterSmooth

\* C5: once a bounded-round stage is over, its visitor has been called
\* exactly the configured number of times (none for a count below 1):
\* numTrimRounds trim visits, SmoothRounds smoothing visits with --smooth,
\* numBubbleRounds bubble visits; and never more while it runs.
C5_ExactRounds ==
    /\ CountEv("trim") <= Rounds(opt.numTrimRounds)
    /\ CountEv("smooth") <= (IF opt.bSmoothGraph THEN SmoothRounds ELSE 0)
    /\ CountEv("bubble") <= Rounds(opt.numBubbleRounds)
    /\ pc \in AfterTrim => CountEv("trim") = Rounds(opt.numTrimRounds)
    /\ pc \in AfterSmooth =>
          CountEv("smooth") = (IF opt.bSmoothGraph THEN SmoothRounds ELSE 0)
    /\ (pc \in AfterBubble /\ pc # "bubblesimplify") =>
          CountEv("bubble") = Rounds(opt.numBubbleRounds)
    /\ pc = "bubblesimplify" => CountEv("bubble") = opt.numBubbleRounds

\* Trimming is over after its rounds, one of which changed the graph and a
\* later one did not.
C5_Witness ==
    /\ pc = "smooth"
    /\ opt.numTrimRounds = MaxRounds
    /\ \E i, j \in 1..Len(log) :
          /\ i < j
          /\ log[i].ev = "trim" /\ log[i].n > 0
          /\ log[j].ev = "trim" /\ log[j].n = 0

LastEv == log[Len(log)]

FileNames == {f.name : f \in files}
OutputEvents == {"writeDot", "contigs", "finalASQG"}
MutatingEvents ==
    {"contain", "tr", "ec", "remodel", "trim", "smooth", "resolve", "simplify",
     "bubble"}

\* C7: the renaming comes after every compaction and every other change of
\* the graph, the dot file, the contigs and the final graph are written
\* after the renaming and hold contig identifiers only, and the final graph
\* is written exactly when --asqg-outfile named a file.
C7_OutputAfterRename ==
    /\ \A j \in 1..Len(log) :
          log[j].ev = "rename" =>
             /\ \A i \in 1..Len(log) : i > j => log[i].ev \notin MutatingEvents
             /\ \A i \in 1..Len(log) : i < j => log[i].ev \notin OutputEvents
    /\ \A e \in OutputEvents : HasEvent(e) => HasEvent("rename")
    /\ HasEvent("rename") => HasEvent("simplify")
    /\ \A f \in files :
          f.name \in {"final.dot", opt.outFile, opt.asqgOutfile} =>
             \A id \in f.ids : id.kind = "contig-"
    /\ HasEvent("finalASQG") => "a" \in seen
    /\ pc \in {"delete", "return", "done"} =>
          /\ HasEvent("writeDot") /\ HasEvent("contigs")
          /\ HasEvent("finalASQG") <=> "a" \in seen
          /\ {"final.dot", opt.outFile} \subseteq FileNames
          /\ opt.asqgOutfile \in FileNames <=> "a" \in seen

\* A finished run with --asqg-outfile whose final graph holds a contig.
C7_Witness ==
    /\ pc = "done"
    /\ "a" \in seen
    /\ HasEvent("bubble")
    /\ \E f \in files : f.name = opt.asqgOutfile /\ f.ids # {}

\* The artifacts of error correction, of remodel, of the modification stages
\* and of the end of the pipeline.
ArtifactsEC == {"correctedReads.fa", "afterEC.asqg.gz"}
ArtifactsRM == {"afterRM.asqg.gz"}
ArtifactsMod == {"postmod.asqg.gz"}
ArtifactsFinal == {"final.dot", opt.outFile} \cup ({opt.asqgOutfile} \ {""})

\* The remodel stage is complete when the transitive reduction that ends its
\* repeat of stages 1-2 has run.
RemodelStageDone ==
    \E i, j \in 1..Len(log) : i < j /\ log[i].ev = "remodel" /\ log[j].ev = "tr"

\* The enabled modification stages are complete.
ModStagesDone ==
    /\ CountEv("trim") = Rounds(opt.numTrimRounds)
    /\ CountEv("smooth") = (IF opt.bSmoothGraph THEN SmoothRounds ELSE 0)
    /\ opt.resolveSmallRepeatLen >= 0 =>
          \E i \in 1..Len(log) : log[i].ev = "resolve" /\ log[i].n = 0

\* What a written artifact tells about the run, apart from the post-remodel
\* snapshot.
ArtifactsImplyStage ==
    /\ FileNames \cap ArtifactsEC # {} => HasEvent("ec")
    /\ FileNames \cap ArtifactsMod # {} => ModStagesDone
    /\ FileNames \cap ArtifactsFinal # {} => HasEvent("rename")

\* The artifacts that must not exist after a fault at position p: those of
\* the stage of p and of the later stages; inRepeat tells whether the repeat
\* of stages 1-2 counts as part of the remodel stage for its snapshot.
ForbiddenAfterFault(p, inRepeat) ==
    CASE p \in {"load", "contain", "tr", "correct"} ->
            ArtifactsEC \cup ArtifactsRM \cup ArtifactsMod \cup ArtifactsFinal
      [] p = "remodel" -> ArtifactsRM \cup ArtifactsMod \cup ArtifactsFinal
      [] p \in {"rmcontain", "rmtr"} ->
            (IF inRepeat THEN ArtifactsRM ELSE {})
               \cup ArtifactsMod \cup ArtifactsFinal
      [] p \in {"trimloop", "smoothloop", "resolveloop"} ->
            ArtifactsMod \cup ArtifactsFinal
      [] OTHER -> ArtifactsFinal

\* C8 as stated: an artifact exists only once its stage is complete, the
\* post-remodel snapshot only once the remodel stage (the remodel visit and
\* its repeat of stages 1-2) is complete; after a fault no artifact of the
\* faulted stage or of a later one exists.
C8_Original ==
    /\ ArtifactsImplyStage
    /\ FileNames \cap ArtifactsRM # {} => RemodelStageDone
    /\ pc = "aborted" => FileNames \cap ForbiddenAfterFault(faultAt, TRUE) = {}

\* C8, amended: as stated, except that the post-remodel snapshot is written
\* once the remodel visit has returned, before the repeat of containment
\* removal and transitive reduction; a fault in that repeat leaves the
\* post-remodel snapshot and no later artifact.
C8_ArtifactsAfterStage ==
    /\ ArtifactsImplyStage
    /\ FileNames \cap ArtifactsRM # {} => HasEvent("remodel")
    /\ pc = "aborted" => FileNames \cap ForbiddenAfterFault(faultAt, FALSE) = {}

\* A fault in the containment removal that follows remodel, with the
\* post-remodel snapshot and the error-correction artifacts written.
C8_Witness ==
    /\ pc = "aborted"
    /\ faultAt = "rmcontain"
    /\ ArtifactsRM \cup ArtifactsEC \subseteq FileNames

Terminated == pc \in {"done", "aborted", "exited"}

\* C9: every run ends: it reaches the end of assembleMain after the contig
\* output, or it exits from the parser, or it aborts on a fault; no loop of
\* assemble() goes on for ever.
C9_Terminates == <>Terminated

\* A finished run in which the containment loop and the small-repeat loop
\* both made a pass that changed the graph.
C9_Witness ==
    /\ pc = "done"
    /\ \E i \in 1..Len(log) : log[i].ev = "contain" /\ log[i].n > 0
    /\ \E i \in 1..Len(log) : log[i].ev = "resolve" /\ log[i].n > 0
    /\ HasEvent("contigs")

\* C10: after every step of the pipeline every live edge has its twin, both
\* endpoints of every edge are live vertices, no edge is a self-loop, the
\* vertex identifiers are pairwise different, and an edge that a step removes
\* has its twin removed by the same step.
C10_TwinSymmetry ==
    [][/\ \A e \in G'.E : /\ Twin(e) \in G'.E
                          /\ e[1] \in G'.V /\ e[2] \in G'.V
                          /\ e[1] # e[2]
       /\ \A u, v \in G'.V : G'.name[u] = G'.name[v] => u = v
       /\ \A e \in G.E \ G'.E : Twin(e) \notin G'.E]_vars

\* A graph that lost a vertex to the containment removal and an edge to the
\* transitive reduction, with overlaps left.
C10_Witness ==
    /\ \E i \in 1..Len(log) : log[i].ev = "contain" /\ log[i].n > 0
    /\ \E i \in 1..Len(log) : log[i].ev = "tr" /\ log[i].n > 0
    /\ G.E # {}
    /\ pc = "validate"

\* The statement of C11 as given: each of the two loops is left right after a
\* pass of its visitor that reports no change.
C11_Original ==
    /\ pc \in {"postcontainstats", "rmtr"} =>
          Len(log) > 0 /\ LastEv.ev = "contain" /\ LastEv.n = 0
    /\ pc = "resolvestats" =>
          Len(log) > 0 /\ LastEv.ev = "resolve" /\ LastEv.n = 0

\* C11: the small-repeat loop repeats its visit until a pass reports no
\* change and is left right after the first such pass; the containment loop
\* is driven by hasContainment(): a pass runs only while a live vertex is
\* flagged, every pass reports a change, and the loop is left, without a pass
\* that reports no change, as soon as no vertex is flagged.
C11_FixedPointLoops ==
    /\ pc = "resolvestats" =>
          Len(log) > 0 /\ LastEv.ev = "resolve" /\ LastEv.n = 0
    /\ \A i \in 1..Len(log) :
          (log[i].ev = "resolve" /\ log[i].n = 0) =>
              \A j \in (i + 1)..Len(log) : log[j].ev # "resolve"
    /\ pc = "resolveloop" =>
          \/ ~HasEvent("resolve")
          \/ LastEv.ev = "resolve" /\ LastEv.n > 0 /\ changed
    /\ \A i \in 1..Len(log) : log[i].ev = "contain" => log[i].n > 0
    /\ pc \in {"postcontainstats", "rmtr"} => ~hasContainment(G)

\* The small-repeat loop is over after a pass that removed edges and a pass
\* that removed none, in a run whose containment loop made a pass.
C11_Witness ==
    /\ pc = "resolvestats"
    /\ CountEv("resolve") >= 2
    /\ \E i \in 1..Len(log) : log[i].ev = "resolve" /\ log[i].n > 0
    /\ HasEvent("contain")

\* The calls of the modification stages that come before the compaction.
ModStageEvents ==
    {"contain", "tr", "ec", "remodel", "trim", "smooth", "resolve"}
PastCompaction ==
    {"finalstats", "buildvalidate", "rename", "writedot", "writecontigs",
     "writefinal", "delete", "return", "done"}

\* C12: the compaction runs once after all modification stages, whatever the
\* options; a bubble visit comes after that compaction with nothing but
\* bubble visits in between; when bubble rounds ran, one more compaction
\* follows them and none otherwise; from the last compaction to the contig
\* output nothing changes the graph but the renaming.
C12_Compaction ==
    /\ CountEv("simplify") <= 2
    /\ \A i \in 1..Len(log) :
          log[i].ev = "simplify" =>
              \A j \in (i + 1)..Len(log) : log[j].ev \notin ModStageEvents
    /\ \A j \in 1..Len(log) :
          log[j].ev = "bubble" =>
              \E i \in 1..(j - 1) :
                  /\ log[i].ev = "simplify"
                  /\ \A k \in (i + 1)..(j - 1) : log[k].ev = "bubble"
    /\ pc \in {"bubble", "bubbleloop", "bubblesimplify"} =>
          CountEv("simplify") = 1
    /\ pc \in PastCompaction =>
          /\ CountEv("simplify") = (IF CountEv("bubble") > 0 THEN 2 ELSE 1)
          /\ CountEv("bubble") > 0 <=> opt.numBubbleRounds > 0
          /\ \E i \in 1..Len(log) :
                /\ log[i].ev = "simplify"
                /\ \A k \in (i + 1)..Len(log) : log[k].ev \notin MutatingEvents

\* A finished run in which a bubble was popped between the two compactions.
C12_Witness ==
    /\ pc = "done"
    /\ CountEv("simplify") = 2
    /\ \E i \in 1..Len(log) : log[i].ev = "bubble" /\ log[i].n > 0
    /\ HasEvent("contigs")

\* The calls of the stages that follow remodel.
LaterStageEvents ==
    {"trim", "smooth", "resolve", "simplify", "bubble", "rename"}
AfterRemodel == {"rmstats", "trim", "trimloop"} \cup AfterTrim

\* After the remodel visit come, before any call of a later stage, passes of
\* the containment removal until no vertex is flagged and then one transitive
\* reduction, with nothing but the post-remodel snapshot in between.
RepeatAfterRemodel ==
    /\ CountEv("remodel") <= 1
    /\ HasEvent("remodel") => opt.bRemodelGraph
    /\ \A i \in 1..Len(log) :
          log[i].ev = "remodel" =>
            /\ Cardinality({t \in (i + 1)..Len(log) : log[t].ev = "tr"}) <= 1
            /\ \A t \in (i + 1)..Len(log) :
                  log[t].ev = "tr" =>
                     \A m \in (i + 1)..(t - 1) :
                        log[m].ev \in {"writeASQG", "contain"}
            /\ \A k \in (i + 1)..Len(log) :
                  log[k].ev \in LaterStageEvents =>
                     \E t \in (i + 1)..(k - 1) : log[t].ev = "tr"
            /\ pc \in AfterRemodel =>
                  \E t \in (i + 1)..Len(log) : log[t].ev = "tr"
    /\ (pc \in AfterRemodel /\ opt.bRemodelGraph) => HasEvent("remodel")
    /\ (pc = "rmtr") => ~hasContainment(G)

\* The statement of C13 as given: whenever the remodel visit runs, the
\* error-correction visit has run before it.
C13_Original ==
    /\ HasEvent("remodel") => HasEvent("ec")
    /\ RepeatAfterRemodel

\* C13: with --remodel the remodel visit comes at the place after the
\* error-correction stage: after the error-correction visit when --correct
\* is given, and never before one; it is followed, before any later stage,
\* by the containment loop and then one transitive reduction.
C13_RemodelThenRepeat ==
    /\ \A i \in 1..Len(log) :
          log[i].ev = "remodel" =>
            /\ \A j \in (i + 1)..Len(log) : log[j].ev # "ec"
            /\ opt.bCorrectReads <=> \E j \in 1..(i - 1) : log[j].ev = "ec"
    /\ RepeatAfterRemodel

\* The repeat is over in a run with --correct and --remodel in which the
\* containment loop after remodel removed a vertex.
C13_Witness ==
    /\ pc = "rmstats"
    /\ \E i \in 1..Len(log) :
          /\ log[i].ev = "remodel"
          /\ \E j \in 1..(i - 1) : log[j].ev = "ec"
          /\ \E m \in (i + 1)..Len(log) : log[m].ev = "contain" /\ log[m].n > 0
          /\ \E t \in (i + 1)..Len(log) : log[t].ev = "tr"

\* The calls of the destructive stages, and the calls that begin the next
\* stage or the final output.
DestructiveEvents ==
    {"contain", "tr", "trim", "smooth", "resolve", "simplify", "bubble"}
NextStageEvents ==
    DestructiveEvents \cup {"ec", "remodel", "rename"} \cup OutputEvents
ValidationEvents == {"validate", "validate()"}

\* The statement of C14 as given: with the flag, a validation comes between
\* a call of a destructive stage and the first call of another stage or of
\* the output; without the flag there is no validation visit.
C14_Original ==
    /\ opt.bValidate =>
          \A i, j \in 1..Len(log) :
             (/\ i < j
              /\ log[i].ev \in DestructiveEvents
              /\ log[j].ev \in NextStageEvents
              /\ log[j].ev # log[i].ev) =>
                 \E k \in (i + 1)..(j - 1) : log[k].ev \in ValidationEvents
    /\ ~opt.bValidate => ~HasEvent("validate")

\* C14: the validation visit runs at most once, only with the flag set, and
\* then right after the first transitive reduction, before error correction
\* and every later stage; no validation visit follows any later stage.
\* validate() runs, whatever the flag, in a build with VALIDATE, once, after
\* the statistics that follow the last compaction.
C14_ValidateOnce ==
    /\ CountEv("validate") <= 1
    /\ HasEvent("validate") => opt.bValidate
    /\ \A k \in 1..Len(log) :
          log[k].ev = "validate" =>
             /\ k > 1 /\ log[k - 1].ev = "tr"
             /\ \A j \in 1..(k - 2) :
                   log[j].ev \in {"load", "stats", "debug", "edgestats", "contain"}
    /\ \A i \in 1..(Len(log) - 1) :
          (/\ opt.bValidate
           /\ log[i].ev = "tr"
           /\ \A j \in 1..(i - 1) : log[j].ev # "tr") =>
              log[i + 1].ev = "validate"
    /\ (pc = "prermstats" /\ opt.bValidate) => LastEv.ev = "validate"
    /\ CountEv("validate()") <= 1
    /\ \A k \in 1..Len(log) :
          log[k].ev = "validate()" =>
             /\ k > 2 /\ log[k - 1].ev = "stats" /\ log[k - 2].ev = "simplify"

\* A finished run with --validate whose trimming removed a vertex after the
\* one validation visit.
C14_Witness ==
    /\ pc = "done"
    /\ opt.bValidate
    /\ CountEv("validate") = 1
    /\ \E k \in 1..Len(log) :
          /\ log[k].ev = "validate"
          /\ \E i \in (k + 1)..Len(log) : log[i].ev = "trim" /\ log[i].n > 0

\* Positions after the error-correction stage and after the small-repeat
\* stage.
AfterCorrect == {"remodel", "rmwrite", "rmcontain", "rmtr"} \cup AfterRemodel
AfterResolve ==
    {"postmod", "presimplifystats", "simplify", "bubble", "bubbleloop"}
        \cup AfterBubble
AfterBubbleStage == AfterBubble \ {"bubblesimplify"}

\* A stage has made a call only if its option enables it, and once the run
\* is past an enabled stage, the stage has made a call.
StagesIffEnabled ==
    /\ HasEvent("ec") => opt.bCorrectReads
    /\ HasEvent("remodel") => opt.bRemodelGraph
    /\ HasEvent("trim") => opt.numTrimRounds > 0
    /\ HasEvent("smooth") => opt.bSmoothGraph
    /\ HasEvent("resolve") => opt.resolveSmallRepeatLen >= 0
    /\ HasEvent("bubble") => opt.numBubbleRounds > 0
    /\ (pc \in AfterCorrect /\ opt.bCorrectReads) => HasEvent("ec")
    /\ (pc \in AfterRemodel /\ opt.bRemodelGraph) => HasEvent("remodel")
    /\ (pc \in AfterTrim /\ opt.numTrimRounds > 0) => HasEvent("trim")
    /\ (pc \in AfterSmooth /\ opt.bSmoothGraph) => HasEvent("smooth")
    /\ (pc \in AfterResolve /\ opt.resolveSmallRepeatLen >= 0) =>
          HasEvent("resolve")
    /\ (pc \in AfterBubbleStage /\ opt.numBubbleRounds > 0) =>
          HasEvent("bubble")

\* The step over a disabled stage changes neither the graph nor the files
\* and makes no call.
DisabledStageSkipped ==
    (\/ pc = "correct" /\ ~opt.bCorrectReads
     \/ pc = "remodel" /\ ~opt.bRemodelGraph
     \/ pc = "trim" /\ ~(opt.numTrimRounds > 0)
     \/ pc = "smooth" /\ ~opt.bSmoothGraph
     \/ pc = "resolve" /\ ~(opt.resolveSmallRepeatLen >= 0)
     \/ pc = "bubble" /\ ~(opt.numBubbleRounds > 0)) =>
        G' = G /\ log' = log /\ files' = files /\ faultAt' = "none"

\* With no option on the command line, the calls that change the graph are
\* the containment passes, one transitive reduction, one compaction and the
\* renaming.
DefaultRun ==
    (seen \subseteq {"POS"}) =>
        /\ \A i \in 1..Len(log) :
              log[i].ev \in MutatingEvents \cup {"rename"} =>
                 log[i].ev \in {"contain", "tr", "simplify", "rename"}
        /\ CountEv("tr") <= 1 /\ CountEv("simplify") <= 1
        /\ pc \in {"writedot", "writecontigs", "writefinal", "delete",
                    "return", "done"} =>
              /\ CountEv("tr") = 1 /\ CountEv("simplify") = 1
              /\ CountEv("rename") = 1

\* C15: each optional stage (error correction, remodel, trimming, smoothing,
\* small-repeat resolution, bubble removal) runs exactly when its option
\* enables it, a threshold of 0 enabling the small-repeat resolution and a
\* round count below 1 running no round; a disabled stage is stepped over
\* with the graph untouched; with no options the graph is changed only by the
\* containment loop, one transitive reduction, one compaction and the
\* renaming.
C15_OptionalStages ==
    [][StagesIffEnabled' /\ DefaultRun' /\ DisabledStageSkipped]_vars

\* A finished run without options in which a chain of reads, one contained
\* read removed, was compacted into a single contig.
C15_Witness ==
    /\ pc = "done"
    /\ seen = {"POS"}
    /\ \E i \in 1..Len(log) : log[i].ev = "contain" /\ log[i].n > 0
    /\ \E i \in 1..Len(log) : log[i].ev = "simplify" /\ log[i].n >= 2
    /\ \E f \in files : f.name = opt.outFile /\ f.ids = {ContigName(0)}

====
